---- MODULE Spec2Model ----
(***************************************************************************)
(* The delta sync client of examples/simple-example/fault-tolerant/delta/  *)
(* create-client.js: getMessages (the outbound builder), handleMessages    *)
(* (the inbound applier) and the clock closures of createClient.           *)
(*                                                                         *)
(* The collaborators createClient is constructed with (the CRDT, the       *)
(* persistence, the clock store) and the hybrid logical clock package are  *)
(* not part of that file; they are modelled from their interface.          *)
(***************************************************************************)
EXTENDS Integers, Sequences, FiniteSets, TLC

\* ------------------------------------------------------------------ bounds
\* Wall-clock readings and remote timestamps range over 0..MaxTs.
MaxTs == 2
\* Largest counter a clock of the model may reach.
MaxCount == 3
\* Server cursors range over 0..MaxCursor.
MaxCursor == 1
\* Largest number of deltas in one inbound sync message.
MaxDeltas == 2
\* Largest number of messages in one handleMessages batch.
MaxBatch == 2
\* Largest number of listeners of one kind on one collection or node.
MaxListeners == 1
\* Largest number of handleMessages calls in one behaviour.
MaxCalls == 1
\* Largest number of getMessages calls in one behaviour.
MaxPasses == 1

\* ------------------------------------------------------- JavaScript values
\* null / undefined / an absent key of an object.
Null == -1
\* ToBoolean of a value of the model: null, undefined and the number 0 are
\* falsy, every other number is truthy.
Truthy(x) == x # Null /\ x # 0

Max(a, b) == IF a >= b THEN a ELSE b

\* ------------------------------------------- hybrid logical clock (package)
LocalNode == 1
RemoteNode == 2
NodeWidth == 3
CountWidth == MaxCount + 1

\* hlc.pack: the fixed-width serialisation of a clock; packed stamps of the
\* model compare (as integers) the way the packed strings compare.
Pack(c) == (c.ts * CountWidth + c.count) * NodeWidth + c.node
\* hlc.unpack
Unpack(s) ==
    [ts |-> (s \div NodeWidth) \div CountWidth,
     count |-> (s \div NodeWidth) % CountWidth,
     node |-> s % NodeWidth]
\* hlc.inc
HlcInc(local, now) ==
    IF now > local.ts
    THEN [ts |-> now, count |-> 0, node |-> local.node]
    ELSE [local EXCEPT !.count = @ + 1]
\* hlc.recv
HlcRecv(local, remote, now) ==
    IF now > local.ts /\ now > remote.ts
    THEN [local EXCEPT !.ts = now, !.count = 0]
    ELSE IF local.ts = remote.ts
    THEN [local EXCEPT !.count = Max(local.count, remote.count) + 1]
    ELSE IF local.ts > remote.ts
    THEN [local EXCEPT !.count = @ + 1]
    ELSE [local EXCEPT !.ts = remote.ts, !.count = remote.count + 1]

\* --------------------------------------------------------- CRDT (collaborator)
\* A delta is [v, stamp]; the data of a node is the largest v applied to it.
\* crdt.deltas.stamp
CrdtStamp(delta) == delta.stamp
\* crdt.deltas.apply
CrdtApply(data, delta) == IF data = Null THEN delta.v ELSE Max(data, delta.v)
\* crdt.value: the projection handed to listeners.
CrdtValue(data) == IF data = Null THEN Null ELSE [value |-> data]

\* ---------------------------------------------------------------- domains
Nodes == {"t1", "t2"}
\* Every collection name a message may carry; "ghost" is never a collection
\* of the persistence.
AllCollections == {"todos", "notes", "ghost"}

RECURSIVE SeqsUpTo(_, _)
SeqsUpTo(S, n) ==
    IF n = 0 THEN {<<>>}
    ELSE LET shorter == SeqsUpTo(S, n - 1)
         IN shorter \cup {Append(s, x) : s \in {q \in shorter : Len(q) = n - 1}, x \in S}

Range(s) == {s[i] : i \in 1..Len(s)}

\* -------------------------------------------------------------------- state
VARIABLES
    collections,    \* persistence.collections, in order
    data,           \* persistence: the merged data of each node
    cursor,         \* persistence: the server cursor of each collection
    pending,        \* persistence: the pending deltas of each collection
    cache,          \* state[colid].cache
    listeners,      \* state[colid].listeners (how many are registered)
    itemListeners,  \* state[colid].itemListeners[id] (how many are registered)
    clock,          \* the clock of createClient
    savedClock,     \* what clockPersist holds
    tasks,          \* the per-message tasks of the handleMessages call in flight
    rejected,       \* whether that call's promise has rejected
    pass,           \* the getMessages call in flight, and what it has read
    outbox,         \* the messages the last getMessages call resolved with
    events,         \* what the last step did, in order
    lastStamp,      \* the stamp the last getStamp call returned
    mergedMax,      \* the largest stamp of the deltas merged so far
    acked,          \* per collection, the largest deltaStamp of the acks handled
    calls,          \* how many times handleMessages has been called
    channel         \* the PeerChanges in flight: to this context, to its sibling

persistVars == <<collections, data, cursor, pending>>
stateVars == <<cache, listeners, itemListeners>>
clockVars == <<clock, savedClock, lastStamp>>
outVars == <<pass, outbox>>
vars == <<collections, data, cursor, pending, cache, listeners, itemListeners,
          clock, savedClock, tasks, rejected, pass, outbox, events, lastStamp,
          mergedMax, acked, calls, channel>>

\* persistence.collections.forEach(id => (state[id] = newCollection()))
Known(c) == c \in Range(collections)

\* ------------------------------------------------------------------ messages
\* The deltas other replicas have made: one per remote timestamp.
RemoteStamp(t) == Pack([ts |-> t, count |-> 0, node |-> RemoteNode])
RemoteDeltas == {[v |-> t, stamp |-> RemoteStamp(t)] : t \in 1..MaxTs}
\* {node, delta} of a sync message.
NodeDeltas == [node : Nodes, delta : RemoteDeltas]

SyncMessage(c, cur, ds) ==
    [type |-> "sync", collection |-> c, serverCursor |-> cur, deltas |-> ds,
     deltaStamp |-> Null]
AckMessage(c, s) ==
    [type |-> "ack", collection |-> c, serverCursor |-> Null, deltas |-> <<>>,
     deltaStamp |-> s]
NoMessage ==
    [type |-> "none", collection |-> "", serverCursor |-> Null, deltas |-> <<>>,
     deltaStamp |-> Null]

\* The stamps this client gave its own deltas in earlier sessions.
LocalStamp(k) == Pack([ts |-> 0, count |-> k, node |-> LocalNode])
\* A pending delta as persistence.deltas returns it.
PendingDelta(n, k) ==
    [node |-> n, delta |-> [v |-> 1, stamp |-> LocalStamp(k)], stamp |-> LocalStamp(k)]

\* ------------------------------------------------- persistence (collaborator)
NoData == [n \in Nodes |-> Null]

\* applyDeltas: every delta folded into the data of its node with the reducer
\* crdt.deltas.apply.
RECURSIVE ApplyAll(_, _)
ApplyAll(nodeData, deltas) ==
    IF deltas = <<>> THEN nodeData
    ELSE ApplyAll([nodeData EXCEPT ![Head(deltas).node] = CrdtApply(@, Head(deltas).delta)],
                  Tail(deltas))
\* applyDeltas: the mapping it resolves with, the merged data of the nodes the
\* deltas name.
AppliedData(nodeData, deltas) ==
    [n \in Nodes |->
        IF \E i \in 1..Len(deltas) : deltas[i].node = n
        THEN ApplyAll(nodeData, deltas)[n] ELSE Null]
\* deleteDeltas: drops the pending deltas up to and including upTo.
DeleteDeltas(list, upTo) == SelectSeq(list, LAMBDA d : d.stamp > upTo)

\* ------------------------------------------------------ the clock closures
InBounds(c) == c.ts <= MaxTs /\ c.count <= MaxCount

\* getStamp, on cs = [clock, saved, last]
getStamp(cs, now) ==
    LET c == HlcInc(cs.clock, now)
    IN [clock |-> c, saved |-> c, last |-> Pack(c)]
\* getStampThrows, with the clock put back.
getStampThrowsRollback(cs, now) == cs

\* getStamp when clockPersist.set throws: the clock has been assigned, the
\* store keeps what it held and no stamp is returned.
getStampThrows(cs, now) == [cs EXCEPT !.clock = HlcInc(cs.clock, now)]
\* recvClock when clockPersist.set throws.
recvClockThrows(cs, newClock, now) == [cs EXCEPT !.clock = HlcRecv(cs.clock, newClock, now)]

\* recvClock, taking the received clock as it is (what setClock does).
recvClockSet(cs, newClock, now) ==
    [cs EXCEPT !.clock = [newClock EXCEPT !.node = cs.clock.node],
               !.saved = [newClock EXCEPT !.node = cs.clock.node]]

\* recvClock
recvClock(cs, newClock, now) ==
    LET c == HlcRecv(cs.clock, newClock, now)
    IN [cs EXCEPT !.clock = c, !.saved = c]

\* ---------------------------------------------------- handleMessages, sync
\* Object.keys(changed): each node of the deltas once, in order of appearance
RECURSIVE Keys(_, _)
Keys(deltas, acc) ==
    IF deltas = <<>> THEN acc
    ELSE Keys(Tail(deltas),
              IF Head(deltas).node \in Range(acc) THEN acc
              ELSE Append(acc, Head(deltas).node))
\* changedIds, with one entry per delta.
changedIdsPerDelta(msg) == [i \in 1..Len(msg.deltas) |-> msg.deltas[i].node]

changedIds(msg) == Keys(msg.deltas, <<>>)

deltasWithStamps(msg) ==
    [i \in 1..Len(msg.deltas) |->
        [node |-> msg.deltas[i].node, delta |-> msg.deltas[i].delta,
         stamp |-> CrdtStamp(msg.deltas[i].delta)]]

\* changes, for the first changed node only.
changesFirst(ids, dat) ==
    [i \in 1..(IF ids = <<>> THEN 0 ELSE 1) |->
        [id |-> ids[i], value |-> CrdtValue(dat[ids[i]])]]

\* changedIds.map(id => ({id, value: crdt.value(data[id])}))
changes(ids, dat) ==
    [i \in 1..Len(ids) |-> [id |-> ids[i], value |-> CrdtValue(dat[ids[i]])]]

\* MaxStampFrom, keeping the first stamp.
RECURSIVE MaxStampFromFirst(_, _)
MaxStampFromFirst(deltas, maxStamp) ==
    IF deltas = <<>> THEN maxStamp
    ELSE LET stamp == CrdtStamp(Head(deltas).delta)
         IN MaxStampFromFirst(Tail(deltas), IF maxStamp = Null THEN stamp ELSE maxStamp)

\* the loop over msg.deltas that keeps the largest stamp
RECURSIVE MaxStampFrom(_, _)
MaxStampFrom(deltas, maxStamp) ==
    IF deltas = <<>> THEN maxStamp
    ELSE LET stamp == CrdtStamp(Head(deltas).delta)
         IN MaxStampFrom(Tail(deltas),
                IF maxStamp = Null \/ stamp > maxStamp THEN stamp ELSE maxStamp)
maxStamp(msg) == MaxStampFrom(msg.deltas, Null)

\* What a listener does when it is called: nothing more, or it calls
\* client.getStamp(), or it throws.
Behaviours == {"quiet", "stamp", "throw"}

Repeat(x, n) == [i \in 1..n |-> x]

\* The statements that follow the await of applyDeltas, in program order.
RECURSIVE NodeStatements(_, _)
NodeStatements(c, ids) ==
    IF ids = <<>> THEN <<>>
    ELSE <<[op |-> "cache", id |-> Head(ids)]>>
         \o Repeat([op |-> "item", id |-> Head(ids)], itemListeners[c][Head(ids)])
         \o NodeStatements(c, Tail(ids))
\* Statements, with the clock advanced first.
StatementsClockFirst(msg) ==
    (IF maxStamp(msg) # Null THEN <<[op |-> "recv", id |-> ""]>> ELSE <<>>)
    \o Repeat([op |-> "listener", id |-> ""], listeners[msg.collection])
    \o NodeStatements(msg.collection, changedIds(msg))
    \o (IF changedIds(msg) # <<>> THEN <<[op |-> "broadcast", id |-> ""]>> ELSE <<>>)

\* Statements, with one broadcast for each changed node.
StatementsBroadcastPerNode(msg) ==
    Repeat([op |-> "listener", id |-> ""], listeners[msg.collection])
    \o NodeStatements(msg.collection, changedIds(msg))
    \o Repeat([op |-> "broadcast", id |-> ""], Len(changedIds(msg)))
    \o (IF maxStamp(msg) # Null THEN <<[op |-> "recv", id |-> ""]>> ELSE <<>>)

Statements(msg) ==
    Repeat([op |-> "listener", id |-> ""], listeners[msg.collection])
    \o NodeStatements(msg.collection, changedIds(msg))
    \o (IF changedIds(msg) # <<>> THEN <<[op |-> "broadcast", id |-> ""]>> ELSE <<>>)
    \o (IF maxStamp(msg) # Null THEN <<[op |-> "recv", id |-> ""]>> ELSE <<>>)

\* A listener called: the call is recorded, then the listener behaves.
Called(st, event, beh, now) ==
    LET st1 == [st EXCEPT !.events = Append(@, event)]
    IN IF beh = "stamp"
       THEN LET cs == getStamp(st1.cs, now)
            IN [st1 EXCEPT !.cs = cs,
                           !.events = Append(@, [kind |-> "getStamp", stamp |-> cs.last,
                                                 now |-> now])]
       ELSE IF beh = "throw"
       THEN [st1 EXCEPT !.thrown = TRUE,
                        !.events = Append(@, [kind |-> "throw", col |-> ""])]
       ELSE st1

\* CacheUpdate, without the test that the node is cached.
CacheUpdateAlways(st, id, dat) ==
    [st EXCEPT !.cache[id] = dat[id],
               !.events = Append(@, [kind |-> "cache", id |-> id, value |-> dat[id]])]

\* Only update the cache if the node has already been cached
CacheUpdate(st, id, dat) ==
    IF Truthy(st.cache[id])
    THEN [st EXCEPT !.cache[id] = dat[id],
                    !.events = Append(@, [kind |-> "cache", id |-> id, value |-> dat[id]])]
    ELSE st

\* One statement, on st = [cache, cs, events, thrown].
Exec(st, stmt, msg, dat, beh, now) ==
    CASE stmt.op = "listener" ->
            Called(st, [kind |-> "listener", changes |-> changes(changedIds(msg), dat)],
                   beh, now)
      [] stmt.op = "cache" -> CacheUpdate(st, stmt.id, dat)
      [] stmt.op = "item" ->
            Called(st, [kind |-> "itemListener", id |-> stmt.id,
                        value |-> CrdtValue(dat[stmt.id])], beh, now)
      [] stmt.op = "broadcast" ->
            [st EXCEPT !.events = Append(@, [kind |-> "broadcast", col |-> msg.collection,
                                             nodes |-> changedIds(msg)])]
      [] stmt.op = "recv" ->
            [st EXCEPT !.cs = recvClock(@, Unpack(maxStamp(msg)), now),
                       !.events = Append(@, [kind |-> "recv", stamp |-> maxStamp(msg)])]

\* The statements from the i-th on, up to the one that throws; the k-th call
\* of a listener behaves as b, every other listener is quiet.
RECURSIVE Run(_, _, _, _, _, _, _, _)
Run(stmts, i, st, msg, dat, k, b, now) ==
    IF i > Len(stmts) \/ st.thrown THEN st
    ELSE Run(stmts, i + 1,
             Exec(st, stmts[i], msg, dat, IF i = k THEN b ELSE "quiet", now),
             msg, dat, k, b, now)

\* sendCrossTabChanges: the PeerChanges the statements handed to the channel.
RECURSIVE Broadcasts(_)
Broadcasts(evs) ==
    IF evs = <<>> THEN <<>>
    ELSE (IF Head(evs).kind = "broadcast"
          THEN <<[col |-> Head(evs).col, nodes |-> Head(evs).nodes]>> ELSE <<>>)
         \o Broadcasts(Tail(evs))

\* ----------------------------------------------------- handleMessages, ack
\* AckRequest, asking for the deltas below the acked stamp only.
AckRequestBelow(msg) == [collection |-> msg.collection, upTo |-> msg.deltaStamp - 1]
\* AckRequest, asking for every delta of the collection.
AckRequestAll(msg) ==
    [collection |-> msg.collection,
     upTo |-> Pack([ts |-> MaxTs, count |-> MaxCount, node |-> NodeWidth - 1])]

\* persistence.deleteDeltas(msg.collection, msg.deltaStamp)
AckRequest(msg) == [collection |-> msg.collection, upTo |-> msg.deltaStamp]

\* ------------------------------------------------------------------ actions
NoSnapshot == [data |-> NoData, cursor |-> Null, cache |-> NoData, clock |-> Null]
\* A task as it starts; before is what the collection and the clock were then.
Task(msg) ==
    [msg |-> msg, pc |-> IF msg.type = "sync" THEN "applying" ELSE "deleting",
     data |-> NoData,
     before |-> IF msg.type = "sync"
                THEN [data |-> data[msg.collection], cursor |-> cursor[msg.collection],
                      cache |-> cache[msg.collection], clock |-> clock]
                ELSE NoSnapshot]
Settled(pc) == [msg |-> NoMessage, pc |-> pc, data |-> NoData, before |-> NoSnapshot]
AllSettled == \A i \in 1..Len(tasks) : tasks[i].pc \in {"done", "failed"}

\* handleMessages is called: messages.map starts one task per message; a
\* sync task runs up to its await of persistence.applyDeltas, an ack task up
\* to persistence.deleteDeltas.
handleMessages(messages) ==
    /\ AllSettled
    /\ calls' = calls + 1
    /\ tasks' = [i \in 1..Len(messages) |-> Task(messages[i])]
    /\ rejected' = FALSE
    /\ events' = <<>>
    /\ UNCHANGED <<persistVars, stateVars, clockVars, outVars, mergedMax, acked, channel>>

\* persistence.applyDeltas of the i-th message does its merge and resolves, or
\* it rejects (the store fails, or refuses a collection it does not track)
\* and has merged nothing.
applyDeltas(i) ==
    /\ i \in 1..Len(tasks)
    /\ tasks[i].pc = "applying"
    /\ LET msg == tasks[i].msg
           c == msg.collection
           dws == deltasWithStamps(msg)
       IN \/ /\ data' = [data EXCEPT ![c] = ApplyAll(@, dws)]
             /\ cursor' = [cursor EXCEPT ![c] = msg.serverCursor]
             /\ tasks' = [tasks EXCEPT ![i].pc = "applied",
                                       ![i].data = AppliedData(data[c], dws)]
             /\ mergedMax' = Max(mergedMax, maxStamp(msg))
             /\ events' = <<[kind |-> "merge", col |-> c]>>
             /\ UNCHANGED rejected
          \/ /\ tasks' = [tasks EXCEPT ![i] = Settled("failed")]
             /\ rejected' = TRUE
             /\ events' = <<[kind |-> "throw", col |-> c]>>
             /\ UNCHANGED <<data, cursor, mergedMax>>
    /\ UNCHANGED <<collections, pending, stateVars, clockVars, outVars, acked, calls, channel>>

\* The rest of the i-th sync task, after its await: the collection-wide
\* listeners, the cache and the per-node listeners, the broadcast, the clock.
\* With col undefined, col.listeners throws.
syncContinue(i) ==
    /\ i \in 1..Len(tasks)
    /\ tasks[i].pc = "applied"
    /\ LET msg == tasks[i].msg
           c == msg.collection
       IN IF ~Known(c)
          THEN /\ tasks' = [tasks EXCEPT ![i] = Settled("failed")]
               /\ rejected' = TRUE
               /\ events' = <<[kind |-> "throw", col |-> c]>>
               /\ UNCHANGED <<stateVars, clockVars, channel>>
          ELSE \E now \in 0..MaxTs, k \in 0..Len(Statements(msg)), b \in Behaviours :
               LET st == Run(Statements(msg), 1,
                             [cache |-> cache[c],
                              cs |-> [clock |-> clock, saved |-> savedClock,
                                      last |-> lastStamp],
                              events |-> <<>>, thrown |-> FALSE],
                             msg, tasks[i].data, k, b, now)
               IN /\ IF b = "quiet" THEN k = 0
                     ELSE k > 0 /\ Statements(msg)[k].op \in {"listener", "item"}
                  /\ InBounds(st.cs.clock)
                  /\ cache' = [cache EXCEPT ![c] = st.cache]
                  /\ clock' = st.cs.clock
                  /\ savedClock' = st.cs.saved
                  /\ lastStamp' = st.cs.last
                  /\ events' = <<[kind |-> "continue", col |-> c,
                                  deltas |-> msg.deltas]>> \o st.events
                  /\ channel' = [channel EXCEPT !.peer = @ \o Broadcasts(st.events)]
                  /\ tasks' = [tasks EXCEPT ![i] =
                                  Settled(IF st.thrown THEN "failed" ELSE "done")]
                  /\ rejected' = (rejected \/ st.thrown)
                  /\ UNCHANGED <<listeners, itemListeners>>
    /\ UNCHANGED <<persistVars, outVars, mergedMax, acked, calls>>

\* persistence.deleteDeltas of the i-th message, an ack, does its deletion.
deleteDeltas(i) ==
    /\ i \in 1..Len(tasks)
    /\ tasks[i].pc = "deleting"
    /\ LET msg == tasks[i].msg
           req == AckRequest(msg)
           kept == DeleteDeltas(pending[req.collection], req.upTo)
       IN /\ pending' = [pending EXCEPT ![req.collection] = kept]
          /\ acked' = [acked EXCEPT ![msg.collection] = Max(@, msg.deltaStamp)]
          /\ events' = <<[kind |-> "ack", col |-> msg.collection,
                          deltaStamp |-> msg.deltaStamp,
                          matched |-> \E d \in Range(pending[msg.collection]) :
                                          d.stamp = msg.deltaStamp,
                          removed |-> Len(pending[req.collection]) - Len(kept),
                          again |-> acked[msg.collection] = msg.deltaStamp]>>
    /\ tasks' = [tasks EXCEPT ![i] = Settled("done")]
    /\ UNCHANGED <<collections, data, cursor, stateVars, clockVars, outVars, rejected,
                   mergedMax, calls, channel>>

\* client.getStamp() is called by the application.
GetStamp ==
    \E now \in 0..MaxTs :
        LET cs == getStamp([clock |-> clock, saved |-> savedClock, last |-> lastStamp], now)
        IN /\ InBounds(cs.clock)
           /\ clock' = cs.clock
           /\ savedClock' = cs.saved
           /\ lastStamp' = cs.last
           /\ events' = <<[kind |-> "getStamp", stamp |-> cs.last, now |-> now,
                           unsaved |-> savedClock # clock, again |-> lastStamp # Null]>>
           /\ UNCHANGED <<persistVars, stateVars, tasks, rejected, outVars, mergedMax, acked, calls, channel>>

\* The application loads node n of collection c through the collection
\* handle: the persisted data of the node enters the cache.
Fetch(c, n) ==
    /\ calls = 0
    /\ Known(c)
    /\ data[c][n] # Null
    /\ cache[c][n] # data[c][n]
    /\ cache' = [cache EXCEPT ![c][n] = data[c][n]]
    /\ events' = <<[kind |-> "fetch", col |-> c, id |-> n]>>
    /\ UNCHANGED <<persistVars, listeners, itemListeners, clockVars, tasks, rejected,
                   outVars, mergedMax, acked, calls, channel>>

\* The application subscribes to collection c.
AddListener(c) ==
    /\ calls = 0
    /\ Known(c)
    /\ listeners[c] < MaxListeners
    /\ listeners' = [listeners EXCEPT ![c] = @ + 1]
    /\ events' = <<[kind |-> "subscribe", col |-> c]>>
    /\ UNCHANGED <<persistVars, cache, itemListeners, clockVars, tasks, rejected,
                   outVars, mergedMax, acked, calls, channel>>

\* The application subscribes to node n of collection c.
AddItemListener(c, n) ==
    /\ calls = 0
    /\ Known(c)
    /\ itemListeners[c][n] < MaxListeners
    /\ itemListeners' = [itemListeners EXCEPT ![c][n] = @ + 1]
    /\ events' = <<[kind |-> "subscribe", col |-> c]>>
    /\ UNCHANGED <<persistVars, cache, listeners, clockVars, tasks, rejected,
                   outVars, mergedMax, acked, calls, channel>>

\* ------------------------------------------------- getMessages, the pass
Idle == [state |-> "idle", n |-> 0]
Job(pc, ds, cur, msg) == [pc |-> pc, deltas |-> ds, serverCursor |-> cur, msg |-> msg]

\* deltas.map(({node, delta}) => ({node, delta}))
StripStamps(deltas) ==
    [i \in 1..Len(deltas) |-> [node |-> deltas[i].node, delta |-> deltas[i].delta]]

\* Owed, with the test of deltas.length left out.
OwedWithoutDeltas(deltas, serverCursor, reconnected) ==
    ~Truthy(serverCursor) \/ reconnected

\* if (deltas.length || !serverCursor || reconnected)
Owed(deltas, serverCursor, reconnected) ==
    Len(deltas) # 0 \/ ~Truthy(serverCursor) \/ reconnected

\* a.filter(Boolean), over the results in the order of persistence.collections
RECURSIVE FilterBoolean(_)
FilterBoolean(a) ==
    IF a = <<>> THEN <<>>
    ELSE (IF Head(a) = NoMessage THEN <<>> ELSE <<Head(a)>>) \o FilterBoolean(Tail(a))

\* getMessages is called: one task per collection, each awaiting
\* persistence.deltas(id).
getMessages(reconnected) ==
    /\ pass.state # "running"
    /\ pass' = [state |-> "running", n |-> pass.n + 1, reconnected |-> reconnected,
                job |-> [c \in Range(collections) |-> Job("deltas", <<>>, Null, NoMessage)]]
    /\ events' = <<>>
    /\ UNCHANGED <<persistVars, stateVars, clockVars, tasks, rejected, outbox,
                   mergedMax, acked, calls, channel>>

\* persistence.deltas(id) resolves; the task awaits getServerCursor(id).
readDeltas(c) ==
    /\ pass.state = "running"
    /\ Known(c)
    /\ pass.job[c].pc = "deltas"
    /\ pass' = [pass EXCEPT !.job[c] = Job("cursor", pending[c], Null, NoMessage)]
    /\ events' = <<>>
    /\ UNCHANGED <<persistVars, stateVars, clockVars, tasks, rejected, outbox,
                   mergedMax, acked, calls, channel>>

\* persistence.getServerCursor(id) resolves; the task returns its message,
\* or nothing.
readServerCursor(c) ==
    /\ pass.state = "running"
    /\ Known(c)
    /\ pass.job[c].pc = "cursor"
    /\ LET deltas == pass.job[c].deltas
           serverCursor == cursor[c]
       IN pass' = [pass EXCEPT !.job[c] =
                     Job("done", deltas, serverCursor,
                         IF Owed(deltas, serverCursor, pass.reconnected)
                         THEN SyncMessage(c, serverCursor, StripStamps(deltas))
                         ELSE NoMessage)]
    /\ events' = <<>>
    /\ UNCHANGED <<persistVars, stateVars, clockVars, tasks, rejected, outbox,
                   mergedMax, acked, calls, channel>>

\* Promise.all resolves and the empty results are filtered out.
resolveMessages ==
    /\ pass.state = "running"
    /\ \A c \in Range(collections) : pass.job[c].pc = "done"
    /\ pass' = [pass EXCEPT !.state = "resolved"]
    /\ outbox' = FilterBoolean([i \in 1..Len(collections) |-> pass.job[collections[i]].msg])
    /\ events' = <<>>
    /\ UNCHANGED <<persistVars, stateVars, clockVars, tasks, rejected, mergedMax, acked,
                   calls, channel>>

\* ----------------------------------------------------- onCrossTabChanges
\* A sibling context reports that nodes of collection c changed: each is read
\* again from the store, its cache entry (if it has one) is replaced and its
\* per-node listeners are called; nothing is broadcast.
\* The channel once the network has delivered PeerChange m from it.
RECURSIVE Delivered(_, _)
Delivered(inflight, m) ==
    IF inflight = <<>> THEN <<>>
    ELSE IF Head(inflight) = m THEN Tail(inflight)
    ELSE <<Head(inflight)>> \o Delivered(Tail(inflight), m)

RECURSIVE PeerStatements(_, _)
PeerStatements(c, ids) ==
    IF ids = <<>> THEN <<>>
    ELSE <<[op |-> "cache", id |-> Head(ids)]>>
         \o Repeat([op |-> "item", id |-> Head(ids)], itemListeners[c][Head(ids)])
         \o PeerStatements(c, Tail(ids))

\* onCrossTabChanges, sending the PeerChange on.
onCrossTabChangesEcho(c, nodes) ==
    /\ Known(c)
    /\ LET msg == SyncMessage(c, Null, <<>>)
           st == Run(PeerStatements(c, nodes), 1,
                     [cache |-> cache[c],
                      cs |-> [clock |-> clock, saved |-> savedClock, last |-> lastStamp],
                      events |-> <<>>, thrown |-> FALSE],
                     msg, data[c], 0, "quiet", 0)
       IN /\ cache' = [cache EXCEPT ![c] = st.cache]
          /\ events' = <<[kind |-> "peer", col |-> c]>> \o st.events
    /\ channel' = [channel EXCEPT !.self = Delivered(@, [col |-> c, nodes |-> nodes]),
                                  !.peer = Append(@, [col |-> c, nodes |-> nodes])]
    /\ UNCHANGED <<persistVars, listeners, itemListeners, clockVars, tasks, rejected,
                   outVars, mergedMax, acked, calls>>

onCrossTabChanges(c, nodes) ==
    /\ Known(c)
    /\ LET msg == SyncMessage(c, Null, <<>>)
           st == Run(PeerStatements(c, nodes), 1,
                     [cache |-> cache[c],
                      cs |-> [clock |-> clock, saved |-> savedClock, last |-> lastStamp],
                      events |-> <<>>, thrown |-> FALSE],
                     msg, data[c], 0, "quiet", 0)
       IN /\ cache' = [cache EXCEPT ![c] = st.cache]
          /\ events' = <<[kind |-> "peer", col |-> c]>> \o st.events
    /\ channel' = [channel EXCEPT !.self = Delivered(@, [col |-> c, nodes |-> nodes])]
    /\ UNCHANGED <<persistVars, listeners, itemListeners, clockVars, tasks, rejected,
                   outVars, mergedMax, acked, calls>>

\* ------------------------------------------------------------ specification
\* The delta lists of the sync messages a server sends: up to MaxDeltas
\* deltas, the first for t1 (the nodes are interchangeable).
DeltaLists == {ds \in SeqsUpTo(NodeDeltas, MaxDeltas) : ds = <<>> \/ ds[1].node = "t1"}
\* The sync messages for a collection of the client, one for a collection it
\* does not have, and an ack.
Inbound ==
    {SyncMessage("todos", MaxCursor, ds) : ds \in DeltaLists}
    \cup {SyncMessage("ghost", MaxCursor, <<>>)}
    \cup {AckMessage("todos", LocalStamp(0))}
\* A batch: one message, or up to MaxBatch messages of at most one delta each.
Batches(pool) ==
    {<<m>> : m \in pool}
    \cup {b \in SeqsUpTo({m \in pool : Len(m.deltas) <= 1}, MaxBatch) : Len(b) > 1}

InboundBatches == Batches(Inbound)

\* The values a node of the store may hold from earlier sessions.
Values == 0..(MaxTs - 1)

\* What createClient sets up, whatever the store holds: nothing is cached,
\* nobody listens, nothing is in flight.
Constructed ==
    /\ cache = [c \in AllCollections |-> NoData]
    /\ listeners = [c \in AllCollections |-> 0]
    /\ itemListeners = [c \in AllCollections |-> [n \in Nodes |-> 0]]
    /\ savedClock = clock
    /\ tasks = <<>>
    /\ rejected = FALSE
    /\ pass = Idle
    /\ outbox = <<>>
    /\ events = <<>>
    /\ lastStamp = Null
    /\ mergedMax = Null
    /\ acked = [c \in AllCollections |-> Null]
    /\ calls = 0
    /\ channel = [self |-> <<>>, peer |-> <<>>, peerCalls |-> 0]

\* The inbound side. After construction the store holds the data earlier
\* sessions left in it; the application loads nodes and subscribes, then one
\* batch of server messages is handled.
Init ==
    /\ collections = <<"todos">>
    /\ \E d \in [Nodes -> Values \cup {Null}] :
          data = [c \in AllCollections |-> IF c = "todos" THEN d ELSE NoData]
    /\ cursor = [c \in AllCollections |-> Null]
    /\ pending = [c \in AllCollections |-> <<>>]
    /\ clock = [ts |-> 1, count |-> 0, node |-> LocalNode]
    /\ Constructed

Next ==
    \/ \E messages \in InboundBatches : calls < MaxCalls /\ handleMessages(messages)
    \/ \E i \in 1..MaxBatch : applyDeltas(i)
    \/ \E i \in 1..MaxBatch : syncContinue(i)
    \/ \E i \in 1..MaxBatch : deleteDeltas(i)
    \/ \E c \in AllCollections, n \in Nodes : Fetch(c, n)
    \/ \E c \in AllCollections : AddListener(c)
    \/ \E c \in AllCollections, n \in Nodes : AddItemListener(c, n)

Spec == Init /\ [][Next]_vars

\* The clock alone: getStamp and recvClock called in any order, with any
\* wall clock and any stamp of the remote replica.
AnyClocks == [ts : 0..MaxTs, count : 0..MaxCount, node : {RemoteNode}]

\* recvClock(newClock) is called.
RecvClock(newClock) ==
    \E now \in 0..MaxTs :
        LET cs == recvClock([clock |-> clock, saved |-> savedClock, last |-> lastStamp],
                            newClock, now)
        IN /\ InBounds(cs.clock)
           /\ clock' = cs.clock
           /\ savedClock' = cs.saved
           /\ events' = <<[kind |-> "recv", stamp |-> Pack(newClock)]>>
           /\ UNCHANGED <<persistVars, stateVars, tasks, rejected, outVars, mergedMax,
                          acked, calls, channel, lastStamp>>

\* client.getStamp() is called and clockPersist.set throws.
GetStampThrows ==
    \E now \in 0..MaxTs :
        LET cs == getStampThrows([clock |-> clock, saved |-> savedClock,
                                  last |-> lastStamp], now)
        IN /\ InBounds(HlcInc(clock, now))
           /\ clock' = cs.clock
           /\ savedClock' = cs.saved
           /\ lastStamp' = cs.last
           /\ events' = <<[kind |-> "setThrows", op |-> "getStamp", now |-> now]>>
           /\ UNCHANGED <<persistVars, stateVars, tasks, rejected, outVars, mergedMax,
                          acked, calls, channel>>

\* recvClock(newClock) is called and clockPersist.set throws.
RecvClockThrows(newClock) ==
    \E now \in 0..MaxTs :
        LET cs == recvClockThrows([clock |-> clock, saved |-> savedClock,
                                   last |-> lastStamp], newClock, now)
        IN /\ InBounds(cs.clock)
           /\ clock' = cs.clock
           /\ savedClock' = cs.saved
           /\ lastStamp' = cs.last
           /\ events' = <<[kind |-> "setThrows", op |-> "recvClock", now |-> now,
                           remote |-> newClock]>>
           /\ UNCHANGED <<persistVars, stateVars, tasks, rejected, outVars, mergedMax,
                          acked, calls, channel>>

InitClock ==
    /\ collections = <<"todos">>
    /\ data = [c \in AllCollections |-> NoData]
    /\ cursor = [c \in AllCollections |-> Null]
    /\ pending = [c \in AllCollections |-> <<>>]
    /\ \E t \in 0..MaxTs : clock = [ts |-> t, count |-> 0, node |-> LocalNode]
    /\ Constructed

NextClock ==
    \/ GetStamp
    \/ \E newClock \in AnyClocks : RecvClock(newClock)
    \/ GetStampThrows
    \/ \E newClock \in AnyClocks : RecvClockThrows(newClock)

SpecClock == InitClock /\ [][NextClock]_vars

\* The outbound side. The store holds pending deltas and cursors of earlier
\* sessions for two collections; getMessages passes run while acks and sync
\* messages of the server and changes of sibling contexts are handled.
PendingPool == <<PendingDelta("t1", 0), PendingDelta("t2", 1), PendingDelta("t1", 2)>>
RECURSIVE SubSeqs(_)
SubSeqs(s) ==
    IF s = <<>> THEN {<<>>}
    ELSE LET rest == SubSeqs(Tail(s))
         IN rest \cup {<<Head(s)>> \o r : r \in rest}
PendingLists == SubSeqs(PendingPool)

\* What the server sends: an ack of any stamp for todos and one for notes,
\* cursor announcements, and a sync message with a delta.
Acks ==
    {AckMessage("todos", LocalStamp(k)) : k \in 0..2} \cup {AckMessage("notes", LocalStamp(0))}
Outbound ==
    Acks
    \cup {SyncMessage("todos", cur, <<>>) : cur \in 0..MaxCursor}
    \cup {SyncMessage("notes", 0, <<>>)}
    \cup {SyncMessage("todos", MaxCursor,
                      <<[node |-> "t1", delta |-> [v |-> 0, stamp |-> RemoteStamp(1)]]>>)}
\* A batch: one message, or the same ack up to MaxBatch times.
OutboundBatches ==
    {<<m>> : m \in Outbound} \cup {Repeat(m, n) : m \in Acks, n \in 2..MaxBatch}

InitOut ==
    /\ collections = <<"todos", "notes">>
    /\ data = [c \in AllCollections |-> NoData]
    /\ \E cur \in [{"todos", "notes"} -> {Null} \cup 0..MaxCursor] :
          cursor = [c \in AllCollections |-> IF c = "ghost" THEN Null ELSE cur[c]]
    /\ \E p \in PendingLists :
          pending = [c \in AllCollections |->
                        IF c = "todos" THEN p
                        ELSE IF c = "notes" THEN <<PendingDelta("t2", 0)>> ELSE <<>>]
    /\ clock = [ts |-> 0, count |-> 2, node |-> LocalNode]
    /\ Constructed

NextOut ==
    \/ \E messages \in OutboundBatches : calls < MaxCalls /\ handleMessages(messages)
    \/ \E i \in 1..MaxBatch : applyDeltas(i)
    \/ \E i \in 1..MaxBatch : syncContinue(i)
    \/ \E i \in 1..MaxBatch : deleteDeltas(i)
    \/ \E reconnected \in BOOLEAN : pass.n < MaxPasses /\ getMessages(reconnected)
    \/ \E c \in AllCollections : readDeltas(c)
    \/ \E c \in AllCollections : readServerCursor(c)
    \/ resolveMessages
    \/ \E c \in AllCollections, nodes \in SeqsUpTo(Nodes, 1) : onCrossTabChanges(c, nodes)

SpecOut == InitOut /\ [][NextOut]_vars

\* Two contexts on one store: this client and a sibling running the same
\* code. Each handles sync messages of the server and the PeerChanges the
\* other has broadcast.
\* The sibling's handleMessages handles a sync message with deltas ds: the
\* merge into the shared store, then the broadcast.
peerSync(ds) ==
    /\ channel.peerCalls < MaxCalls
    /\ LET msg == SyncMessage("todos", MaxCursor, ds)
       IN /\ data' = [data EXCEPT !["todos"] = ApplyAll(@, deltasWithStamps(msg))]
          /\ cursor' = [cursor EXCEPT !["todos"] = msg.serverCursor]
          /\ mergedMax' = Max(mergedMax, maxStamp(msg))
          /\ channel' = [channel EXCEPT
                            !.self = Append(@, [col |-> "todos", nodes |-> changedIds(msg)]),
                            !.peerCalls = @ + 1]
    /\ events' = <<[kind |-> "peerSync", col |-> "todos"]>>
    /\ UNCHANGED <<collections, pending, stateVars, clockVars, tasks, rejected, outVars,
                   acked, calls>>

\* The sibling's network hands it a PeerChange: its onCrossTabChanges reads
\* the nodes again (it has cached none) and sends nothing.
peerReceives ==
    /\ channel.peer # <<>>
    /\ channel' = [channel EXCEPT !.peer = Tail(@)]
    /\ events' = <<[kind |-> "peerReceives", col |-> Head(channel.peer).col]>>
    /\ UNCHANGED <<persistVars, stateVars, clockVars, tasks, rejected, outVars,
                   mergedMax, acked, calls>>

\* This client's network hands it a PeerChange of the sibling.
receives == \E m \in Range(channel.self) : onCrossTabChanges(m.col, m.nodes)

\* The delta lists the contexts are sent: the newest remote delta, for up to
\* MaxDeltas nodes.
TabDeltaLists ==
    {ds \in DeltaLists : \A j \in 1..Len(ds) : ds[j].delta.stamp = RemoteStamp(MaxTs)}
TabBatches == {<<SyncMessage("todos", MaxCursor, ds)>> : ds \in TabDeltaLists}

InitTabs ==
    /\ collections = <<"todos">>
    /\ data = [c \in AllCollections |->
                 IF c = "todos" THEN [n \in Nodes |-> IF n = "t1" THEN 1 ELSE Null]
                 ELSE NoData]
    /\ cursor = [c \in AllCollections |-> Null]
    /\ pending = [c \in AllCollections |-> <<>>]
    /\ clock = [ts |-> 1, count |-> 0, node |-> LocalNode]
    /\ Constructed

NextTabs ==
    \/ \E messages \in TabBatches : calls < MaxCalls /\ handleMessages(messages)
    \/ \E i \in 1..MaxBatch : applyDeltas(i)
    \/ \E i \in 1..MaxBatch : syncContinue(i)
    \/ \E c \in AllCollections, n \in Nodes : Fetch(c, n)
    \/ \E ds \in TabDeltaLists \ {<<>>} : peerSync(ds)
    \/ peerReceives
    \/ receives

\* The networks deliver what is in flight.
SpecTabs ==
    InitTabs /\ [][NextTabs]_vars /\ WF_vars(peerReceives) /\ WF_vars(receives)

\* ------------------------------------------------------------------- claims
\* The step that takes the i-th task on from program counter pc.
Moves(i, pc) ==
    /\ i \in 1..Len(tasks)
    /\ tasks[i].pc = pc
    /\ tasks'[i].pc # pc

PassDone(c) == pass.state # "idle" /\ pass.job[c].pc = "done"
Sent(c) == {i \in 1..Len(outbox) : outbox[i].collection = c}

\* C1: getMessages emits a sync message for a collection if and only if its
\* pending deltas are non-empty, or its server cursor is absent, or
\* reconnected is true; the message carries all the pending deltas and the
\* cursor, and there is at most one message per collection.
C1_OwedIffDeltasOrNoCursorOrReconnected ==
    \A c \in Range(collections) :
        PassDone(c) =>
            LET j == pass.job[c]
            IN /\ (j.msg # NoMessage) <=>
                      (j.deltas # <<>> \/ j.serverCursor = Null \/ pass.reconnected)
               /\ (j.msg # NoMessage) =>
                      j.msg = SyncMessage(c, j.serverCursor, StripStamps(j.deltas))
               /\ (pass.state = "resolved") =>
                      Cardinality(Sent(c)) = IF j.msg # NoMessage THEN 1 ELSE 0

\* C2 (first half): a pending delta leaves the backlog only in the step that
\* handles an ack of its collection with a deltaStamp at or above its stamp.
C2_OnlyAckRemoves ==
    \A c \in AllCollections : \A k \in 1..Len(pending[c]) :
        (pending[c][k] \notin Range(pending'[c])) =>
            /\ Len(events') = 1
            /\ events'[1].kind = "ack"
            /\ events'[1].col = c
            /\ events'[1].deltaStamp >= pending[c][k].stamp
\* C2 (second half): a delta that is still pending is in the sync message of
\* every getMessages pass that has built the collection's message, and that
\* message is among the ones the pass resolves with.
C2_PendingIsResent ==
    \A c \in Range(collections) :
        PassDone(c) =>
            /\ \A k \in 1..Len(pending[c]) :
                  /\ pass.job[c].msg # NoMessage
                  /\ [node |-> pending[c][k].node, delta |-> pending[c][k].delta]
                        \in Range(pass.job[c].msg.deltas)
            /\ (pass.state = "resolved" /\ pass.job[c].msg # NoMessage) =>
                  pass.job[c].msg \in Range(outbox)
\* C2: at-least-once delivery.
C2_AtLeastOnce == [][C2_OnlyAckRemoves]_vars /\ []C2_PendingIsResent
\* C2's case: an ack has been handled, a delta above it is still pending,
\* and the pass that resolved carries it.
C2_Witness ==
    /\ pass.state = "resolved"
    /\ acked["todos"] # Null
    /\ pending["todos"] # <<>>
    /\ \E i \in Sent("todos") : Len(outbox[i].deltas) = Len(pending["todos"])

\* C3: handling an ack removes exactly the pending deltas of its collection
\* with a stamp at or below deltaStamp, and handling an ack whose deltaStamp
\* was acked before leaves the pending deltas as they are.
C3_AckPrunesOnce ==
    [][\A i \in 1..Len(tasks) :
        Moves(i, "deleting") =>
            LET msg == tasks[i].msg
            IN /\ pending'[msg.collection] =
                     SelectSeq(pending[msg.collection], LAMBDA d : d.stamp > msg.deltaStamp)
               /\ \A c \in AllCollections \ {msg.collection} : pending'[c] = pending[c]
               /\ (acked[msg.collection] = msg.deltaStamp) => pending' = pending]_vars
\* C3's case: the same deltaStamp is acked a second time.
C3_Witness ==
    /\ Len(events) = 1
    /\ events[1].kind = "ack"
    /\ events[1].again
    /\ events[1].removed = 0

\* C4 as claimed: an ack whose deltaStamp matches no pending delta changes
\* nothing.
C4_UnmatchedAckIsNoOp ==
    [][\A i \in 1..Len(tasks) :
        Moves(i, "deleting") =>
            LET msg == tasks[i].msg
            IN (\A d \in Range(pending[msg.collection]) : d.stamp # msg.deltaStamp) =>
                  /\ tasks'[i].pc = "done" /\ ~rejected'
                  /\ pending' = pending
                  /\ UNCHANGED <<cursor, data, cache, clock, savedClock>>]_vars
\* C4 as amended: an ack whose deltaStamp matches no pending delta raises no
\* error and leaves cursor, data, cache and clock unchanged; it removes the
\* pending deltas with a stamp below deltaStamp and keeps those above, so it
\* is a no-op exactly when no pending delta has a stamp below it.
C4_UnmatchedAckPrunesBelow ==
    [][\A i \in 1..Len(tasks) :
        Moves(i, "deleting") =>
            LET msg == tasks[i].msg
                below == {d \in Range(pending[msg.collection]) : d.stamp < msg.deltaStamp}
            IN (\A d \in Range(pending[msg.collection]) : d.stamp # msg.deltaStamp) =>
                  /\ tasks'[i].pc = "done" /\ ~rejected'
                  /\ Range(pending'[msg.collection]) = Range(pending[msg.collection]) \ below
                  /\ (below = {}) <=> (pending' = pending)
                  /\ UNCHANGED <<cursor, data, cache, clock, savedClock>>]_vars
\* C4's case: an unmatched ack, with deltas below it (removed) and above it
\* (kept).
C4_Witness ==
    /\ Len(events) = 1
    /\ events[1].kind = "ack"
    /\ ~events[1].matched
    /\ events[1].removed > 0
    /\ pending[events[1].col] # <<>>

\* C5: no step of handleMessages gives a node a cache entry it did not have.
C5_CacheIsolation ==
    [][(tasks' # tasks) =>
        \A c \in AllCollections, n \in Nodes :
            (cache[c][n] = Null) => (cache'[c][n] = Null)]_vars
\* C5's case: a sync message touching a node that is stored but not cached
\* has been handled.
C5_Witness ==
    /\ Len(events) > 1
    /\ events[1].kind = "continue"
    /\ \E k \in 2..Len(events) :
          /\ events[k].kind = "broadcast"
          /\ \E n \in Range(events[k].nodes) :
                cache[events[k].col][n] = Null /\ data[events[k].col][n] # Null

\* C6: when the rest of a sync task runs, every node the message touches
\* that has a cache entry, whatever its value, gets the merged data
\* applyDeltas returned for it as its cache entry.
C6_CachedEntryGetsMergedData ==
    [][\A i \in 1..Len(tasks) :
        (Moves(i, "applied") /\ tasks'[i].pc = "done") =>
            LET c == tasks[i].msg.collection
            IN \A n \in Range(changedIds(tasks[i].msg)) :
                  (cache[c][n] # Null) => (cache'[c][n] = tasks[i].data[n])]_vars

ListenerKinds == {"listener", "itemListener"}

\* C7: a sync message without deltas has its serverCursor stored by
\* applyDeltas, and the rest of its task calls no listener, broadcasts
\* nothing and leaves the clock alone.
C7_CursorOnlySyncIsSilent ==
    [][\A i \in 1..Len(tasks) :
        LET msg == tasks[i].msg
        IN (msg.type = "sync" /\ msg.deltas = <<>> /\ Known(msg.collection)) =>
              /\ Moves(i, "applying") => cursor'[msg.collection] = msg.serverCursor
              /\ Moves(i, "applied") =>
                    /\ \A k \in 1..Len(events') :
                          events'[k].kind \notin ListenerKinds \cup {"broadcast", "recv"}
                    /\ UNCHANGED <<clock, savedClock>>]_vars

\* C8: a sync message for a collection the client does not have is a no-op:
\* no step of its task fails or changes data, cursors, pending deltas,
\* caches or the clock.
C8_UnknownCollectionIsNoOp ==
    [][\A i \in 1..Len(tasks) :
        LET msg == tasks[i].msg
        IN (msg.type = "sync" /\ ~Known(msg.collection)
            /\ (Moves(i, "applying") \/ Moves(i, "applied"))) =>
              /\ tasks'[i].pc # "failed"
              /\ ~rejected'
              /\ UNCHANGED <<data, cursor, pending, cache, clock, savedClock>>]_vars

\* C9: every stamp getStamp returns is greater than the one it returned
\* before (and so than every earlier one), whatever recvClock calls and wall
\* clock readings come in between.
C9_StampsIncrease ==
    [][(Len(events') = 1 /\ events'[1].kind = "getStamp") =>
        /\ lastStamp' = events'[1].stamp
        /\ lastStamp # Null => lastStamp' > lastStamp]_vars
\* C9's case: getStamp has returned a second stamp while the wall clock was
\* behind the clock.
C9_Witness ==
    /\ Len(events) = 1
    /\ events[1].kind = "getStamp"
    /\ events[1].now < clock.ts
    /\ clock.count > 0

\* C10: a stamp getStamp returns is greater than the stamp of every delta
\* merged into the store before the call.
C10_StampsAboveMerged ==
    [][(lastStamp' # lastStamp /\ mergedMax # Null) => lastStamp' > mergedMax]_vars

\* The step in which the i-th task, a sync task, runs from its await to its
\* end without a listener throwing.
Completes(i) == Moves(i, "applied") /\ tasks'[i].pc = "done"
\* The nodes the deltas of msg name.
Touched(msg) == {msg.deltas[k].node : k \in 1..Len(msg.deltas)}
\* The positions of the events of a kind.
Of(evs, kind) == {k \in 1..Len(evs) : evs[k].kind = kind}
\* The calls of the per-node listeners of node n recorded in evs.
ItemCalls(evs, n) == {k \in Of(evs, "itemListener") : evs[k].id = n}

\* C11: when a sync task completes, every per-node listener of every node
\* its deltas touch has been called exactly once, however many of the deltas
\* are for that node, with the projection of the merged data of the node,
\* which includes every delta of the message for it; no listener of another
\* node is called.
C11_ItemListenersOncePerNode ==
    [][\A i \in 1..Len(tasks) :
        Completes(i) =>
            LET msg == tasks[i].msg
                c == msg.collection
            IN \A n \in Nodes :
                  /\ Cardinality(ItemCalls(events', n)) =
                        IF n \in Touched(msg) THEN itemListeners[c][n] ELSE 0
                  /\ \A k \in ItemCalls(events', n) :
                        /\ tasks[i].data[n] # Null
                        /\ events'[k].value = CrdtValue(tasks[i].data[n])
                        /\ \A j \in 1..Len(msg.deltas) :
                              msg.deltas[j].node = n =>
                                 events'[k].value.value >= msg.deltas[j].delta.v]_vars
\* C11's case: a message with two deltas for the same node has been handled
\* and the node's listener was called once.
C11_Witness ==
    /\ Len(events) > 1
    /\ events[1].kind = "continue"
    /\ Len(events[1].deltas) = 2
    /\ \E k \in Of(events, "broadcast") : events[k].nodes = <<"t1">>
    /\ Cardinality(ItemCalls(events, "t1")) = 1
    /\ ~rejected

\* C12: when a sync task of a message with at least one delta completes,
\* every collection-wide listener has been called exactly once, with one
\* (id, value) pair for each node the deltas touch and no other, the value
\* being the projection of the merged data applyDeltas returned, cached or
\* not.
C12_ListenersGetEveryChangedId ==
    [][\A i \in 1..Len(tasks) :
        (Completes(i) /\ tasks[i].msg.deltas # <<>>) =>
            LET msg == tasks[i].msg
                c == msg.collection
            IN /\ Cardinality(Of(events', "listener")) = listeners[c]
               /\ \A k \in Of(events', "listener") :
                     LET ch == events'[k].changes
                     IN /\ Len(ch) = Cardinality(Touched(msg))
                        /\ {ch[j].id : j \in 1..Len(ch)} = Touched(msg)
                        /\ \A j \in 1..Len(ch) :
                              /\ tasks[i].data[ch[j].id] # Null
                              /\ ch[j].value = CrdtValue(tasks[i].data[ch[j].id])]_vars
\* C12's case: a collection-wide listener received two pairs, one of them
\* for a node that is not cached.
C12_Witness ==
    /\ Len(events) > 1
    /\ events[1].kind = "continue"
    /\ ~rejected
    /\ \E k \in Of(events, "listener") :
          /\ Len(events[k].changes) = 2
          /\ \E j \in 1..2 : cache[events[1].col][events[k].changes[j].id] = Null

\* C13: when the rest of a sync task runs, no per-node listener of a node
\* that has no cache entry is called.
C13_ItemListenersOnlyForCached ==
    [][\A i \in 1..Len(tasks) :
        Moves(i, "applied") =>
            LET msg == tasks[i].msg
            IN \A n \in Touched(msg) :
                  (Known(msg.collection) /\ cache[msg.collection][n] = Null) =>
                     ItemCalls(events', n) = {}]_vars

\* C14: a sync task that completes has handed exactly one PeerChange to the
\* channel if its deltas touch a node, carrying the collection and each
\* touched node once, and none otherwise; the merge step of a sync task and
\* the handling of an ack hand over none.
C14_OneBroadcastPerMessage ==
    [][\A i \in 1..Len(tasks) :
        LET msg == tasks[i].msg
            sent == Of(events', "broadcast")
        IN /\ Completes(i) =>
                /\ Cardinality(sent) = IF Touched(msg) = {} THEN 0 ELSE 1
                /\ \A k \in sent :
                      /\ events'[k].col = msg.collection
                      /\ Range(events'[k].nodes) = Touched(msg)
                      /\ Len(events'[k].nodes) = Cardinality(Touched(msg))
                      /\ channel'.peer =
                            Append(channel.peer, [col |-> msg.collection,
                                                  nodes |-> events'[k].nodes])
                /\ (sent = {}) => channel' = channel
           /\ (Moves(i, "applying") \/ Moves(i, "deleting")) =>
                /\ sent = {}
                /\ channel' = channel]_vars
\* C14's case: a message with two deltas for two nodes was handled and one
\* PeerChange naming both is in the channel.
C14_Witness ==
    /\ Len(events) > 1
    /\ events[1].kind = "continue"
    /\ Len(events[1].deltas) = 2
    /\ ~rejected
    /\ Len(channel.peer) = 1
    /\ Len(channel.peer[1].nodes) = 2

\* The PeerChanges in flight between the contexts.
InFlight == Len(channel.self) + Len(channel.peer)

\* C15 (first half): a context that handles a PeerChange sends nothing; the
\* number of PeerChanges in flight grows only when a context has handled a
\* sync message that touches a node, and then by one.
C15_PeerChangeNotResent ==
    /\ (Len(events') > 0 /\ events'[1].kind = "peer") =>
          /\ channel'.peer = channel.peer
          /\ Len(channel'.self) <= Len(channel.self)
          /\ Of(events', "broadcast") = {}
    /\ (Len(events') > 0 /\ events'[1].kind = "peerReceives") =>
          /\ channel'.self = channel.self
          /\ Len(channel'.peer) = Len(channel.peer) - 1
    /\ (InFlight' > InFlight) =>
          /\ InFlight' = InFlight + 1
          /\ \/ \E i \in 1..Len(tasks) : Completes(i) /\ Touched(tasks[i].msg) # {}
             \/ events'[1].kind = "peerSync"
\* C15: no propagation loop.
C15_NoPropagationLoop ==
    [][C15_PeerChangeNotResent]_vars /\ <>[](InFlight = 0)
\* C15's case: both contexts have handled a sync message, this client has
\* just handled the sibling's PeerChange, and nothing is in flight.
C15_Witness ==
    /\ Len(events) > 0
    /\ events[1].kind = "peer"
    /\ calls > 0
    /\ AllSettled
    /\ ~rejected
    /\ channel.peerCalls > 0
    /\ InFlight = 0

\* C16: when the task of the only message of a batch, a sync message for a
\* collection of the client, fails (applyDeltas rejects or a listener
\* throws), the data and the cursor of the collection, its cache and the
\* clock are what they were when the task started.
C16_FailureLeavesStateIntact ==
    [][\A i \in 1..Len(tasks) :
        LET msg == tasks[i].msg
            c == msg.collection
        IN (/\ Len(tasks) = 1
            /\ msg.type = "sync"
            /\ Known(c)
            /\ tasks[i].pc # "failed"
            /\ tasks'[i].pc = "failed") =>
               /\ data'[c] = tasks[i].before.data
               /\ cursor'[c] = tasks[i].before.cursor
               /\ cache'[c] = tasks[i].before.cache
               /\ clock' = tasks[i].before.clock]_vars

\* C17: when clockPersist.set throws in getStamp or recvClock the call
\* fails, the clock keeps the value the call gave it (later than the one it
\* had) while the store keeps the old one, and a getStamp that succeeds while
\* the store is behind returns a stamp above the clock's and above every
\* stamp returned before.
C17_ClockKeptWhenStoreThrows ==
    [][/\ (Len(events') = 1 /\ events'[1].kind = "setThrows") =>
            /\ Pack(clock') > Pack(clock)
            /\ clock' = IF events'[1].op = "getStamp"
                        THEN HlcInc(clock, events'[1].now)
                        ELSE HlcRecv(clock, events'[1].remote, events'[1].now)
            /\ savedClock' = savedClock
            /\ lastStamp' = lastStamp
       /\ (Len(events') = 1 /\ events'[1].kind = "getStamp" /\ savedClock # clock) =>
            /\ lastStamp' = events'[1].stamp
            /\ lastStamp' > Pack(clock)
            /\ lastStamp # Null => lastStamp' > lastStamp
            /\ savedClock' = clock']_vars
\* C17's case: getStamp has succeeded after a call in which the store threw,
\* and a stamp had been returned before.
C17_Witness ==
    /\ Len(events) = 1
    /\ events[1].kind = "getStamp"
    /\ events[1].unsaved
    /\ events[1].again

\* The place of an event in the order of the steps of a sync task.
Rank(e) ==
    CASE e.kind = "listener" -> 1
      [] e.kind \in {"cache", "itemListener"} -> 2
      [] e.kind = "broadcast" -> 3
      [] e.kind = "recv" -> 4
      [] OTHER -> 0
Observable == {"listener", "cache", "itemListener", "broadcast", "recv"}

\* C18: what the rest of a sync task does comes in this order: the
\* collection-wide listeners, then node by node the cache update followed by
\* the node's listeners, then the broadcast, then the clock; and a listener
\* call, cache update, broadcast or clock advance of handleMessages happens
\* only in the rest of a sync task, which starts once applyDeltas has
\* resolved.
C18_StepsInOrder ==
    [][LET evs == events'
           seen == {k \in 1..Len(evs) : evs[k].kind \in Observable}
       IN /\ \A j, k \in seen :
                j < k =>
                   /\ Rank(evs[j]) <= Rank(evs[k])
                   /\ (Rank(evs[j]) = 2 /\ Rank(evs[k]) = 2 /\ evs[j].id = evs[k].id) =>
                         evs[k].kind = "itemListener"
                   /\ (Rank(evs[j]) = 2 /\ Rank(evs[k]) = 2 /\ evs[j].id # evs[k].id) =>
                         \A l \in seen : (l > k /\ Rank(evs[l]) = 2) => evs[l].id # evs[j].id
          /\ (tasks' # tasks
              /\ (seen # {} \/ cache' # cache \/ clock' # clock \/ channel' # channel)) =>
                \E i \in 1..Len(tasks) :
                   /\ Moves(i, "applied")
                   /\ tasks[i].msg.type = "sync"
                   /\ evs[1].kind = "continue"]_vars
\* C18's case: a sync task has done every one of the steps.
C18_Witness ==
    /\ Len(events) > 1
    /\ events[1].kind = "continue"
    /\ \A kind \in Observable : Of(events, kind) # {}
    /\ ~rejected

\* C19: once every task of a batch has ended without failure, every cache
\* entry equals the stored data of its node (stated for the entries the
\* cache test of handleMessages sees, those holding a truthy value).
C19_CacheEqualsStore ==
    (calls > 0 /\ tasks # <<>> /\ AllSettled /\ ~rejected) =>
        \A c \in Range(collections), n \in Nodes :
            Truthy(cache[c][n]) => (cache[c][n] = data[c][n])

\* The largest stamp of the deltas of msg.
TopStamp(msg) ==
    CHOOSE s \in {CrdtStamp(msg.deltas[j].delta) : j \in 1..Len(msg.deltas)} :
        \A j \in 1..Len(msg.deltas) : s >= CrdtStamp(msg.deltas[j].delta)

\* C20: the rest of a sync task calls recvClock at most once, as its last
\* step, and exactly once if it completes and the message has deltas, with
\* the largest stamp of the deltas; after it the clock is above what it was
\* and above that stamp, and the store holds it. A sync message without
\* deltas and an ack call no recvClock, and apart from the stamps listeners
\* take the clock stays as it is; the merge step leaves it alone.
C20_OneRecvClockPerMessage ==
    [][\A i \in 1..Len(tasks) :
        LET msg == tasks[i].msg
            recvs == Of(events', "recv")
        IN /\ (Moves(i, "applied") /\ Known(msg.collection)) =>
                /\ Cardinality(recvs) <= 1
                /\ Completes(i) => (Cardinality(recvs) = IF msg.deltas = <<>> THEN 0 ELSE 1)
                /\ \A k \in recvs :
                      /\ k = Len(events')
                      /\ events'[k].stamp = TopStamp(msg)
                      /\ Pack(clock') > Pack(clock)
                      /\ Pack(clock') > TopStamp(msg)
                      /\ savedClock' = clock'
                /\ (recvs = {} /\ Of(events', "getStamp") = {}) =>
                      UNCHANGED <<clock, savedClock>>
           /\ (Moves(i, "applying") \/ Moves(i, "deleting")) =>
                /\ recvs = {}
                /\ UNCHANGED <<clock, savedClock>>]_vars
\* C20's case: a message with two deltas of different stamps, the larger
\* first, has been handled with one recvClock call.
C20_Witness ==
    /\ Len(events) > 1
    /\ events[1].kind = "continue"
    /\ Len(events[1].deltas) = 2
    /\ CrdtStamp(events[1].deltas[1].delta) > CrdtStamp(events[1].deltas[2].delta)
    /\ Cardinality(Of(events, "recv")) = 1
    /\ ~rejected

====
